---- MODULE Spec2Model ----
(***************************************************************************)
(* Help-desk ticket tracker (tickets/models.py): the persisted entity set  *)
(* (CustomUser, Ticket, TicketAttachment, TicketHistory, Notification),    *)
(* the identity generators generate_access_code / generate_ticket_number, *)
(* ticket creation as the ORM performs it (field default evaluated when    *)
(* the instance is built, INSERT under the unique constraint at save()),   *)
(* user deletion with its on_delete rules, and the ticket lifecycle        *)
(* transitions of the design document.                                     *)
(***************************************************************************)
EXTENDS Integers, Sequences, FiniteSets, TLC

(* ------------------------------ bounds -------------------------------- *)
\* user primary keys 1..MaxUsers
MaxUsers == 2
\* concurrent request workers that create tickets
MaxCreators == 2
\* ticket rows ever inserted
MaxCreated == 3
\* distinct outcomes of the random source behind generate_access_code
MaxCodes == 2
\* code_sent_count values 0..MaxSent
MaxSent == 1
\* history rows ever inserted
MaxHistory == 3
\* attachment rows ever inserted
MaxAttachments == 1
\* advances of the wall clock
MaxTicks == 1
\* ticket rows inserted where the lifecycle, not the numbering, is followed
MaxTracked == 2

(* ------------------------- program constants -------------------------- *)
\* range(12) in generate_access_code
AccessCodeLen == 12
\* the 04d of the ticket number format
PadWidth == 4
\* settings.DAYS_UNTIL_ARCHIVE
DAYS_UNTIL_ARCHIVE == 30
\* the calendar: the run starts on 31 December of FirstYear
FirstYear == 2025
DaysPerYear == 365

\* NULL of a date or foreign-key column, and of a text column
NULL == -1
NullText == "NULL"

UserIds == 1..MaxUsers
Creators == 1..MaxCreators

(* ------------------------- text as the code builds it ----------------- *)
\* string.ascii_uppercase + string.digits
Alphabet ==
  << "A","B","C","D","E","F","G","H","I","J","K","L","M",
     "N","O","P","Q","R","S","T","U","V","W","X","Y","Z",
     "0","1","2","3","4","5","6","7","8","9" >>

DigitChars == << "0","1","2","3","4","5","6","7","8","9" >>

\* str(n) for n >= 0: the decimal digits, most significant first
RECURSIVE Str(_)
Str(n) ==
  IF n < 10 THEN << DigitChars[n + 1] >>
  ELSE Str(n \div 10) \o << DigitChars[(n % 10) + 1] >>

\* the zero padding of a format width: the text grows when it is wider
RECURSIVE ZeroPad(_, _)
ZeroPad(s, w) == IF Len(s) >= w THEN s ELSE ZeroPad(<< "0" >> \o s, w)

\* str.startswith
StartsWith(s, p) == Len(s) >= Len(p) /\ SubSeq(s, 1, Len(p)) = p

\* s.split('-')[-1]: what follows the last '-' (all of s when it has none)
RECURSIVE LastField(_)
LastField(s) ==
  IF s = << >> THEN << >>
  ELSE IF s[Len(s)] = "-" THEN << >>
  ELSE LastField(SubSeq(s, 1, Len(s) - 1)) \o << s[Len(s)] >>

DigitValue(c) == (CHOOSE i \in 1..10 : DigitChars[i] = c) - 1

\* int(s) of a string of decimal digits
RECURSIVE ParseInt(_)
ParseInt(s) ==
  IF s = << >> THEN 0
  ELSE 10 * ParseInt(SubSeq(s, 1, Len(s) - 1)) + DigitValue(s[Len(s)])

\* f'TCK-{year}'
TicketPrefix(year) == << "T", "C", "K", "-" >> \o Str(year)

\* f'TCK-{year}-{new_num:04d}'
FormatTicketNumber(year, new_num) ==
  TicketPrefix(year) \o << "-" >> \o ZeroPad(Str(new_num), PadWidth)

(* ------------------------------ state --------------------------------- *)
VARIABLES
  today,          \* wall clock: days elapsed since the start of the run
  ticks,          \* how often the clock advanced (bounds the run)
  users,          \* CustomUser rows, by primary key
  tickets,        \* Ticket rows
  attachments,    \* TicketAttachment rows
  history,        \* TicketHistory rows
  notifications,  \* Notification rows
  nextTicket,     \* next Ticket primary key / created_at instant
  nextHistory,    \* next TicketHistory primary key
  nextAttachment, \* next TicketAttachment primary key
  pc,             \* per worker: "idle" or "built" (instance built, not saved)
  inst,           \* per worker: the unsaved Ticket instance
  log,            \* every ticket INSERT that succeeded, in order
  last            \* outcome of the latest call, as the caller sees it

vars == << today, ticks, users, tickets, attachments, history, notifications,
           nextTicket, nextHistory, nextAttachment, pc, inst, log, last >>

\* timezone.now().year
YearOf(day) == FirstYear + ((day + DaysPerYear - 1) \div DaysPerYear)

Existing == DOMAIN users

\* a worker that holds no unsaved instance
NoInstance == [ticket_number |-> << >>, user |-> NULL, year |-> NULL]

NoCall == [op |-> "none", result |-> "none"]

Init ==
  /\ today = 0
  /\ ticks = 0
  /\ users = << >>
  /\ tickets = {}
  /\ attachments = {}
  /\ history = {}
  /\ notifications = {}
  /\ nextTicket = 1
  /\ nextHistory = 1
  /\ nextAttachment = 1
  /\ pc = [c \in Creators |-> "idle"]
  /\ inst = [c \in Creators |-> NoInstance]
  /\ log = << >>
  /\ last = NoCall

(* ------------------------- identity generators ------------------------ *)
\* generate_access_code: 12 characters, each drawn from Alphabet by the
\* secure random source; draw stands for one outcome of that source
generate_access_code(draw) ==
  [i \in 1..AccessCodeLen |-> Alphabet[((draw * i) % Len(Alphabet)) + 1]]

\* the filter without the year in its prefix: every ticket matches
TicketsOfAnyYear(T, year) == T

\* Ticket.objects.filter(ticket_number__startswith=f'TCK-{year}')
TicketsOfPrefix(T, year) ==
  { t \in T : StartsWith(t.ticket_number, TicketPrefix(year)) }

\* .order_by('-created_at').first() of a non-empty queryset
FirstByCreatedAtDesc(Q) ==
  CHOOSE t \in Q : \A o \in Q : o.created_at <= t.created_at

\* generate_ticket_number over the rows T, with timezone.now() on day
generate_ticket_number(T, day) ==
  LET year == YearOf(day)
      Q == TicketsOfPrefix(T, year)
      new_num == IF Q # {}
                 THEN ParseInt(LastField(FirstByCreatedAtDesc(Q).ticket_number)) + 1
                 ELSE 1
  IN FormatTicketNumber(year, new_num)

(* --------------------------- constraints ------------------------------ *)
\* the access_code column without its unique constraint
AccessCodeUnchecked(U, u, code) == TRUE

\* unique=True on CustomUser.access_code: no other row holds the code
AccessCodeUnique(U, u, code) ==
  \A v \in DOMAIN U : v # u => U[v].access_code # code

\* the ticket_number column without its unique constraint
TicketNumberUnchecked(T, number) == TRUE

\* unique=True on Ticket.ticket_number
TicketNumberUnique(T, number) ==
  \A t \in T : t.ticket_number # number

(* ------------------------------ users --------------------------------- *)
\* CustomUser(...).save() with the field defaults; the row takes the first
\* free primary key
CreateUser(u, role, draw) ==
  /\ u \in UserIds \ Existing
  /\ \A v \in UserIds : v < u => v \in Existing
  /\ LET code == generate_access_code(draw) IN
       IF AccessCodeUnique(users, u, code)
       THEN /\ users' = [v \in Existing \cup { u } |->
                           IF v = u
                           THEN [role |-> role, access_code |-> code,
                                 code_sent_count |-> 0, is_code_active |-> TRUE]
                           ELSE users[v]]
            /\ last' = [op |-> "create_user", user |-> u, result |-> "saved"]
       ELSE /\ users' = users
            /\ last' = [op |-> "create_user", user |-> u,
                        result |-> "IntegrityError"]
  /\ UNCHANGED << today, ticks, tickets, attachments, history, notifications,
                  nextTicket, nextHistory, nextAttachment, pc, inst, log >>

\* CustomUser.regenerate_code
RegenerateCode(u, draw) ==
  /\ u \in Existing
  /\ LET code == generate_access_code(draw) IN
       IF AccessCodeUnique(users, u, code)
       THEN /\ users' = [users EXCEPT ![u].access_code = code,
                                      ![u].code_sent_count = 0,
                                      ![u].is_code_active = TRUE]
            /\ last' = [op |-> "regenerate_code", user |-> u,
                        result |-> "returned", value |-> code,
                        sent_before |-> users[u].code_sent_count,
                        active_before |-> users[u].is_code_active]
       ELSE /\ users' = users
            /\ last' = [op |-> "regenerate_code", user |-> u,
                        result |-> "IntegrityError", value |-> << >>,
                        sent_before |-> users[u].code_sent_count,
                        active_before |-> users[u].is_code_active]
  /\ UNCHANGED << today, ticks, tickets, attachments, history, notifications,
                  nextTicket, nextHistory, nextAttachment, pc, inst, log >>

\* a caller that sends the code: code_sent_count += 1, save()
SendCode(u) ==
  /\ u \in Existing
  /\ users[u].code_sent_count < MaxSent
  /\ users' = [users EXCEPT ![u].code_sent_count = @ + 1]
  /\ last' = [op |-> "send_code", user |-> u, result |-> "saved"]
  /\ UNCHANGED << today, ticks, tickets, attachments, history, notifications,
                  nextTicket, nextHistory, nextAttachment, pc, inst, log >>

\* a caller that deactivates the code: is_code_active = False, save()
DeactivateCode(u) ==
  /\ u \in Existing
  /\ users[u].is_code_active
  /\ users' = [users EXCEPT ![u].is_code_active = FALSE]
  /\ last' = [op |-> "deactivate_code", user |-> u, result |-> "saved"]
  /\ UNCHANGED << today, ticks, tickets, attachments, history, notifications,
                  nextTicket, nextHistory, nextAttachment, pc, inst, log >>

(* -------------------------- ticket creation --------------------------- *)
\* Ticket(user=owner, ...): the instance is built and the default of
\* ticket_number, generate_ticket_number, is evaluated against the store;
\* the request is served by the first idle worker
BuildTicket(c, owner) ==
  /\ pc[c] = "idle"
  /\ \A k \in Creators : k < c => pc[k] = "built"
  /\ owner \in Existing
  /\ nextTicket <= MaxCreated
  /\ inst' = [inst EXCEPT ![c] =
                [ticket_number |-> generate_ticket_number(tickets, today),
                 user |-> owner,
                 year |-> YearOf(today)]]
  /\ pc' = [pc EXCEPT ![c] = "built"]
  /\ last' = [op |-> "build_ticket", result |-> "built"]
  /\ UNCHANGED << today, ticks, users, tickets, attachments, history,
                  notifications, nextTicket, nextHistory, nextAttachment, log >>

\* the row save() inserts: the declared defaults, created_at from
\* auto_now_add as the instant of the INSERT. The columns no operation here
\* reads (description, category, priority, affected_equipment,
\* serial_number, visit_time, updated_at) are left out.
NewTicketRow(i) ==
  [id |-> nextTicket,
   ticket_number |-> i.ticket_number,
   user |-> i.user,
   status |-> "ABIERTO",
   visit_date |-> NULL,
   rejection_reason |-> NullText,
   closure_note |-> NullText,
   created_at |-> nextTicket,
   closed_at |-> NULL]

\* instance.save(): the INSERT, refused by the foreign key on user or by the
\* unique constraint on ticket_number; the refusal reaches the caller
SaveTicket(c) ==
  /\ pc[c] = "built"
  /\ LET i == inst[c] IN
       IF i.user \notin Existing
       THEN /\ last' = [op |-> "save_ticket", worker |-> c,
                        result |-> "IntegrityError", field |-> "user"]
            /\ UNCHANGED << tickets, nextTicket, log >>
       ELSE IF ~ TicketNumberUnique(tickets, i.ticket_number)
       THEN /\ last' = [op |-> "save_ticket", worker |-> c,
                        result |-> "IntegrityError", field |-> "ticket_number"]
            /\ UNCHANGED << tickets, nextTicket, log >>
       ELSE /\ nextTicket <= MaxCreated
            /\ tickets' = tickets \cup { NewTicketRow(i) }
            /\ nextTicket' = nextTicket + 1
            /\ log' = Append(log, [year |-> i.year,
                                   ticket_number |-> i.ticket_number])
            /\ last' = [op |-> "save_ticket", worker |-> c,
                        result |-> "saved", field |-> "none"]
  /\ pc' = [pc EXCEPT ![c] = "idle"]
  /\ inst' = [inst EXCEPT ![c] = NoInstance]
  /\ UNCHANGED << today, ticks, users, attachments, history, notifications,
                  nextHistory, nextAttachment >>

\* TicketAttachment(ticket=t, image=...).save()
AddAttachment(t) ==
  /\ t \in tickets
  /\ nextAttachment <= MaxAttachments
  /\ attachments' = attachments \cup
       { [id |-> nextAttachment, ticket |-> t.id, uploaded_at |-> today] }
  /\ nextAttachment' = nextAttachment + 1
  /\ last' = [op |-> "add_attachment", ticket |-> t.id, result |-> "saved"]
  /\ UNCHANGED << today, ticks, users, tickets, history, notifications,
                  nextTicket, nextHistory, pc, inst, log >>

(* ------------------------------ clock --------------------------------- *)
ClockTick(d) ==
  /\ ticks < MaxTicks
  /\ today' = today + d
  /\ ticks' = ticks + 1
  /\ UNCHANGED << users, tickets, attachments, history, notifications,
                  nextTicket, nextHistory, nextAttachment, pc, inst, log, last >>

(* --------------------------- user deletion ---------------------------- *)
\* on_delete of TicketHistory.user as DO_NOTHING: the row keeps its actor
HistoryKeepsActor(h, u) == h

\* on_delete of TicketHistory.user: SET_NULL
HistoryAfterActorDelete(h, u) ==
  IF h.user = u THEN [h EXCEPT !.user = NULL] ELSE h

\* user.delete(): CASCADE over Ticket.user, and from the deleted tickets over
\* TicketAttachment.ticket, TicketHistory.ticket and Notification.ticket;
\* CASCADE over Notification.user; SET_NULL over TicketHistory.user
DeleteUser(u) ==
  /\ u \in Existing
  /\ LET owned == { t.id : t \in { x \in tickets : x.user = u } } IN
       /\ tickets' = { t \in tickets : t.user # u }
       /\ attachments' = { a \in attachments : a.ticket \notin owned }
       /\ history' = { HistoryAfterActorDelete(h, u) :
                         h \in { x \in history : x.ticket \notin owned } }
       /\ notifications' = { n \in notifications :
                               n.user # u /\ n.ticket \notin owned }
  /\ users' = [v \in Existing \ { u } |-> users[v]]
  /\ last' = [op |-> "delete_user", user |-> u, result |-> "deleted"]
  /\ UNCHANGED << today, ticks, nextTicket, nextHistory, nextAttachment,
                  pc, inst, log >>

(* ------------------------ ticket lifecycle ---------------------------- *)
Events == { "start_work", "schedule_visit", "reject", "close",
            "add_note", "archive" }

\* a From column that also lets an open ticket be closed directly
FromStatusesCloseFromOpen(event) ==
  CASE event = "start_work"     -> { "ABIERTO" }
    [] event = "schedule_visit" -> { "ABIERTO" }
    [] event = "reject"         -> { "ABIERTO", "EN_PROGRESO" }
    [] event = "close"          -> { "ABIERTO", "EN_PROGRESO" }
    [] event = "add_note"       -> { "CERRADO" }
    [] event = "archive"        -> { "CERRADO" }

\* the From column of the transition table
FromStatuses(event) ==
  CASE event = "start_work"     -> { "ABIERTO" }
    [] event = "schedule_visit" -> { "ABIERTO" }
    [] event = "reject"         -> { "ABIERTO", "EN_PROGRESO" }
    [] event = "close"          -> { "EN_PROGRESO" }
    [] event = "add_note"       -> { "CERRADO" }
    [] event = "archive"        -> { "CERRADO" }

\* the To column
ToStatus(event, status) ==
  CASE event = "start_work"     -> "EN_PROGRESO"
    [] event = "schedule_visit" -> status
    [] event = "reject"         -> "RECHAZADO"
    [] event = "close"          -> "CERRADO"
    [] event = "add_note"       -> status
    [] event = "archive"        -> "ARCHIVADO"

\* history that records only status changes: the status-preserving events
\* are logged as STATUS_CHANGED too
HistoryActionStatusOnly(event) ==
  CASE event = "start_work"     -> "STATUS_CHANGED"
    [] event = "schedule_visit" -> "STATUS_CHANGED"
    [] event = "reject"         -> "REJECTED"
    [] event = "close"          -> "CLOSED"
    [] event = "add_note"       -> "STATUS_CHANGED"
    [] event = "archive"        -> "ARCHIVED"

\* the history action of the Side effect column
HistoryAction(event) ==
  CASE event = "start_work"     -> "STATUS_CHANGED"
    [] event = "schedule_visit" -> "VISIT_SCHEDULED"
    [] event = "reject"         -> "REJECTED"
    [] event = "close"          -> "CLOSED"
    [] event = "add_note"       -> "NOTE_ADDED"
    [] event = "archive"        -> "ARCHIVED"

\* the events whose Side effect column says "notify owner"
NotifiesOwner(event) ==
  event \in { "start_work", "schedule_visit", "reject", "close" }

\* the events whose Side effect column says "set closed_at"
SetsClosedAt(event) == event \in { "reject", "close" }

\* the Precondition column; supplied says whether the call carries the
\* argument the event needs (visit date and time, reason, closure note)
TransitionError(t, actor, event, supplied) ==
  IF t.status \notin FromStatuses(event) THEN "InvalidTransition"
  ELSE IF event = "start_work" /\ users[actor].role # "TECNICO"
    THEN "PermissionDenied"
  ELSE IF event \in { "schedule_visit", "reject", "close" } /\ ~ supplied
    THEN "PreconditionFailed"
  ELSE IF event = "archive" /\ today - t.closed_at < DAYS_UNTIL_ARCHIVE
    THEN "PreconditionFailed"
  ELSE "ok"

\* the ticket row after the event
TicketAfter(t, event) ==
  [t EXCEPT
     !.status = ToStatus(event, t.status),
     !.visit_date = IF event = "schedule_visit" THEN today ELSE @,
     !.rejection_reason = IF event = "reject" THEN "reason" ELSE @,
     !.closure_note = IF event = "close" THEN "note" ELSE @,
     !.closed_at = IF SetsClosedAt(event) THEN today ELSE @]

\* the one history row of the event
HistoryRow(t, actor, event) ==
  [id |-> nextHistory, ticket |-> t.id, user |-> actor,
   action |-> HistoryAction(event),
   comment |-> IF event \in { "reject", "close", "add_note" }
               THEN "text" ELSE NullText,
   timestamp |-> today]

\* NotificationCenter.notify(owner, ticket, ...); at most one per history
\* row, so the history key also keys the notification
NotificationRows(t, event) ==
  IF NotifiesOwner(event)
  THEN { [id |-> nextHistory, user |-> t.user, ticket |-> t.id,
          title |-> HistoryAction(event), is_read |-> FALSE,
          created_at |-> today] }
  ELSE {}

\* LifecycleEngine.transition: validate, then mutate the ticket, append the
\* history row and notify, as one atomic unit
Transition(t, actor, event, supplied) ==
  /\ t \in tickets
  /\ actor \in Existing
  /\ LET err == TransitionError(t, actor, event, supplied) IN
       /\ last' = [op |-> "transition", result |-> err]
       /\ IF err = "ok"
          THEN /\ nextHistory <= MaxHistory
               /\ tickets' = (tickets \ { t }) \cup { TicketAfter(t, event) }
               /\ history' = history \cup { HistoryRow(t, actor, event) }
               /\ notifications' = notifications \cup NotificationRows(t, event)
               /\ nextHistory' = nextHistory + 1
          ELSE UNCHANGED << tickets, history, notifications, nextHistory >>
  /\ UNCHANGED << today, ticks, users, attachments, nextTicket,
                  nextAttachment, pc, inst, log >>

(* --------------------------- specification ---------------------------- *)
Roles == { "TECNICO", "USUARIO" }

Next ==
  \/ \E u \in UserIds, role \in Roles, draw \in 1..MaxCodes :
       CreateUser(u, role, draw)
  \/ \E u \in UserIds, draw \in 1..MaxCodes : RegenerateCode(u, draw)
  \/ \E u \in UserIds : SendCode(u)
  \/ \E u \in UserIds : DeactivateCode(u)
  \/ \E c \in Creators, owner \in UserIds : BuildTicket(c, owner)
  \/ \E c \in Creators : SaveTicket(c)
  \/ \E t \in tickets : AddAttachment(t)
  \/ \E d \in { 1, DAYS_UNTIL_ARCHIVE } : ClockTick(d)
  \/ \E u \in UserIds : DeleteUser(u)
  \/ \E t \in tickets, actor \in UserIds, event \in Events,
        supplied \in BOOLEAN : Transition(t, actor, event, supplied)

Spec == Init /\ [][Next]_vars

\* ticket numbering: requesters come and go (their role and code, which
\* the numbering never reads, are fixed), workers build and save tickets,
\* the clock advances
NextNumbering ==
  \/ \E u \in UserIds : CreateUser(u, "USUARIO", u)
  \/ \E c \in Creators, owner \in UserIds : BuildTicket(c, owner)
  \/ \E c \in Creators : SaveTicket(c)
  \/ \E d \in { 1, DAYS_UNTIL_ARCHIVE } : ClockTick(d)
  \/ \E u \in UserIds : DeleteUser(u)

SpecNumbering == Init /\ [][NextNumbering]_vars

\* ticket creations only: nothing is ever deleted, and the tickets are
\* filed by one requester (the numbering never reads the owner)
NextCreate ==
  \/ \E u \in UserIds : CreateUser(u, "USUARIO", u)
  \/ \E c \in Creators : BuildTicket(c, 1)
  \/ \E c \in Creators : SaveTicket(c)
  \/ \E d \in { 1, DAYS_UNTIL_ARCHIVE } : ClockTick(d)

SpecCreate == Init /\ [][NextCreate]_vars

\* one requester's tickets over the years: the requester files tickets,
\* is deleted with them, and registers again
NextYears ==
  \/ \E u \in UserIds : CreateUser(u, "USUARIO", u)
  \/ \E c \in Creators : BuildTicket(c, 1)
  \/ \E c \in Creators : SaveTicket(c)
  \/ \E d \in { 1, DAYS_UNTIL_ARCHIVE } : ClockTick(d)
  \/ \E u \in UserIds : DeleteUser(u)

SpecYears == Init /\ [][NextYears]_vars

\* the first user to register is the technician, the others are requesters
StaffRole(u) == IF u = 1 THEN "TECNICO" ELSE "USUARIO"

\* the store once a technician and a requester have registered
InitStaffed ==
  /\ today = 0
  /\ ticks = 0
  /\ users = [u \in { 1, 2 } |->
               [role |-> StaffRole(u),
                access_code |-> generate_access_code(u),
                code_sent_count |-> 0, is_code_active |-> TRUE]]
  /\ tickets = {}
  /\ attachments = {}
  /\ history = {}
  /\ notifications = {}
  /\ nextTicket = 1
  /\ nextHistory = 1
  /\ nextAttachment = 1
  /\ pc = [c \in Creators |-> "idle"]
  /\ inst = [c \in Creators |-> NoInstance]
  /\ log = << >>
  /\ last = NoCall

\* the lifecycle of the tickets one worker creates for them
NextLifecycle ==
  \/ \E owner \in UserIds : nextTicket <= MaxTracked /\ BuildTicket(1, owner)
  \/ SaveTicket(1)
  \/ ClockTick(DAYS_UNTIL_ARCHIVE)
  \/ \E t \in tickets, actor \in UserIds, event \in Events,
        supplied \in BOOLEAN : Transition(t, actor, event, supplied)

SpecLifecycle == InitStaffed /\ [][NextLifecycle]_vars

\* the user rows and their access codes
NextUsers ==
  \/ \E u \in UserIds, role \in Roles, draw \in 1..MaxCodes :
       CreateUser(u, role, draw)
  \/ \E u \in UserIds, draw \in 1..MaxCodes : RegenerateCode(u, draw)
  \/ \E u \in UserIds : SendCode(u)
  \/ \E u \in UserIds : DeactivateCode(u)
  \/ \E u \in UserIds : DeleteUser(u)

SpecUsers == Init /\ [][NextUsers]_vars

\* user deletion over tickets that carry attachments, history and notifications
NextDelete ==
  \/ \E u \in UserIds : CreateUser(u, StaffRole(u), u)
  \/ \E owner \in UserIds : nextTicket <= MaxTracked /\ BuildTicket(1, owner)
  \/ SaveTicket(1)
  \/ \E t \in tickets : AddAttachment(t)
  \/ \E t \in tickets, actor \in UserIds, event \in Events :
       Transition(t, actor, event, TRUE)
  \/ \E u \in UserIds : DeleteUser(u)

SpecDelete == Init /\ [][NextDelete]_vars

(* ================= ticket numbering: C1, C2, C3, C4, C10 =============== *)

\* the sequence component of a ticket number
SeqOf(number) == ParseInt(LastField(number))

\* how many of the first i inserts were numbered in the year of insert i
RankInYear(i) ==
  Cardinality({ j \in 1..i : log[j].year = log[i].year })

\* C1: two ticket creations that are under way at once in the same calendar
\* year (both have called generate_ticket_number, neither has saved) never
\* hold the same ticket_number.
C1_ConcurrentCreationsDistinct ==
  \A c1, c2 \in Creators :
    ( /\ c1 # c2
      /\ pc[c1] = "built" /\ pc[c2] = "built"
      /\ inst[c1].year = inst[c2].year )
    => inst[c1].ticket_number # inst[c2].ticket_number

\* C2: with creations only (concurrent ones included), the n-th ticket
\* created in a year carries TCK-<year>-<n>: the sequence components of a
\* year rise by 1 in creation order, without gap or duplicate, and the rows
\* stored are exactly the tickets created.
C2_SequencePerYear ==
  /\ \A i \in 1..Len(log) :
       /\ log[i].ticket_number = FormatTicketNumber(log[i].year, RankInYear(i))
       /\ SeqOf(log[i].ticket_number) = RankInYear(i)
       /\ \E t \in tickets :
            t.created_at = i /\ t.ticket_number = log[i].ticket_number
  /\ Cardinality(tickets) = Len(log)

\* C2 witness: two tickets of one year are stored and a concurrent creation
\* of that year has just lost the race for a number.
C2_Witness ==
  /\ last.op = "save_ticket"
  /\ last.result = "IntegrityError"
  /\ last.field = "ticket_number"
  /\ \E i, j \in 1..Len(log) : i < j /\ log[i].year = log[j].year

\* C3: the first ticket created in a calendar year gets sequence 1 whatever
\* the earlier years hold, and tickets created in different years never
\* carry the same ticket_number.
C3_YearReset ==
  /\ \A i \in 1..Len(log) :
       (\A j \in 1..(i - 1) : log[j].year # log[i].year)
       => /\ SeqOf(log[i].ticket_number) = 1
          /\ log[i].ticket_number = FormatTicketNumber(log[i].year, 1)
  /\ \A i, j \in 1..Len(log) :
       log[i].year # log[j].year => log[i].ticket_number # log[j].ticket_number

\* C3 witness: two tickets were created in the first year and then one in
\* the next year.
C3_Witness ==
  /\ Len(log) >= 3
  /\ log[1].year = FirstYear
  /\ log[2].year = FirstYear
  /\ log[3].year = FirstYear + 1

\* C4: a uniqueness conflict on ticket_number or access_code never reaches
\* the caller of a creation: the creation retries and ends persisted or
\* with CreationFailed.
C4_ConflictNeverSurfaces ==
  /\ last.op = "save_ticket"
     => ~ (last.result = "IntegrityError" /\ last.field = "ticket_number")
  /\ last.op = "create_user" => last.result # "IntegrityError"

\* the highest sequence number among the tickets of a year, 0 when none
MaxSeqOfYear(T, year) ==
  LET S == { SeqOf(t.ticket_number) : t \in TicketsOfPrefix(T, year) }
  IN IF S = {} THEN 0 ELSE CHOOSE m \in S : \A k \in S : k <= m

\* C10: in every store state generate_ticket_number returns TCK-<year>-<n>
\* with n one more than the highest sequence number of the year's tickets
\* (1 when the year has none), zero-padded to 4 digits.
C10_NextIsHighestPlusOne ==
  generate_ticket_number(tickets, today) =
    FormatTicketNumber(YearOf(today), MaxSeqOfYear(tickets, YearOf(today)) + 1)

(* ===================== ticket lifecycle: C5, C6, C7 ==================== *)

\* C5: in every reachable state a ticket's closed_at is non-null if and only
\* if its status is CLOSED or ARCHIVED.
C5_ClosedAtIffClosed ==
  \A t \in tickets :
    (t.closed_at # NULL) <=> (t.status \in { "CERRADO", "ARCHIVADO" })

\* the transition table as the design document prints it: event, From
C6_ListedFrom ==
  { << "start_work", "ABIERTO" >>, << "schedule_visit", "ABIERTO" >>,
    << "reject", "ABIERTO" >>, << "reject", "EN_PROGRESO" >>,
    << "close", "EN_PROGRESO" >>,
    << "add_note", "CERRADO" >>, << "archive", "CERRADO" >> }

\* C6: an event requested from a status that is not a listed From of the
\* event is answered InvalidTransition and changes no row of any entity:
\* no ticket field, no history row, no notification.
\* (a step answered otherwise is no request from an unlisted status; a
\* request answered InvalidTransition has changed nothing)
C6_IllegalRejected ==
  [][ last'.op = "transition" =>
        IF last'.result # "InvalidTransition"
        THEN \A t \in tickets, actor \in UserIds, event \in Events,
                supplied \in BOOLEAN :
               << event, t.status >> \notin C6_ListedFrom
               => ~ Transition(t, actor, event, supplied)
        ELSE \/ UNCHANGED << users, tickets, attachments, history,
                             notifications >>
             \/ ~ \E t \in tickets, actor \in UserIds, event \in Events,
                     supplied \in BOOLEAN :
                    Transition(t, actor, event, supplied) ]_vars

\* C6 witness: a request was answered InvalidTransition on a store that
\* holds an archived ticket with history and notifications.
C6_Witness ==
  /\ last.op = "transition"
  /\ last.result = "InvalidTransition"
  /\ \E t \in tickets : t.status = "ARCHIVADO"
  /\ history # {}
  /\ notifications # {}

\* the history action the design document's table gives each event
C7_TableAction ==
  [ start_work |-> "STATUS_CHANGED", schedule_visit |-> "VISIT_SCHEDULED",
    reject |-> "REJECTED", close |-> "CLOSED",
    add_note |-> "NOTE_ADDED", archive |-> "ARCHIVED" ]

\* C7: every successful transition, the status-preserving ones included,
\* adds exactly one history row, with the action of the event, the ticket
\* and the acting user of the call; every other history row stays as it was.
C7_OneHistoryRow ==
  [][ (last'.op = "transition" /\ last'.result = "ok") =>
        \A t \in tickets, actor \in UserIds, event \in Events,
           supplied \in BOOLEAN :
          Transition(t, actor, event, supplied)
          => \E h \in history' :
               /\ h \notin history
               /\ history' = history \cup { h }
               /\ h.action = C7_TableAction[event]
               /\ h.ticket = t.id
               /\ h.user = actor ]_vars

\* C7 witness: a status-preserving transition has just succeeded after
\* status-changing ones.
C7_Witness ==
  /\ last.op = "transition"
  /\ last.result = "ok"
  /\ \E h \in history : h.action = "NOTE_ADDED" /\ h.id = nextHistory - 1
  /\ \E h \in history : h.action = "CLOSED"

(* ========================== access codes: C8 ========================== *)

\* C8: every user's access_code is non-empty and differs from every other
\* user's; and once regenerate_code has returned for a user, that user's
\* code_sent_count is 0, is_code_active is true and the code returned is the
\* code stored.
C8_AccessCodes ==
  /\ \A u \in Existing : Len(users[u].access_code) > 0
  /\ \A u, v \in Existing :
       u # v => users[u].access_code # users[v].access_code
  /\ (last.op = "regenerate_code" /\ last.result = "returned")
     => /\ users[last.user].code_sent_count = 0
        /\ users[last.user].is_code_active
        /\ users[last.user].access_code = last.value

\* C8 witness: regenerate_code has returned for a user whose code had been
\* sent and deactivated, while another user exists.
C8_Witness ==
  /\ last.op = "regenerate_code"
  /\ last.result = "returned"
  /\ last.sent_before > 0
  /\ ~ last.active_before
  /\ Cardinality(Existing) >= 2

(* ========================== user deletion: C9 ========================= *)

\* C9: deleting a user removes the tickets the user owns with their
\* attachments, history and notifications, and keeps every history row the
\* user authored on somebody else's ticket, with the actor set to null and
\* the ticket, action, comment and timestamp as they were.
C9_HistorySurvivesActor ==
  [][ \A u \in UserIds :
        DeleteUser(u) =>
          LET owned == { t.id : t \in { x \in tickets : x.user = u } } IN
            /\ tickets' = { t \in tickets : t.id \notin owned }
            /\ \A a \in attachments' : a.ticket \notin owned
            /\ \A h \in history' : h.ticket \notin owned
            /\ \A n \in notifications' : n.ticket \notin owned
            /\ \A h \in history :
                 (h.user = u /\ h.ticket \notin owned)
                 => /\ [h EXCEPT !.user = NULL] \in history'
                    /\ \A k \in history' :
                         k.id = h.id => k = [h EXCEPT !.user = NULL] ]_vars

\* C9 witness: a user who had acted on somebody else's ticket and owned a
\* ticket with history has just been deleted; the row on the other ticket
\* is there with a null actor.
C9_Witness ==
  /\ last.op = "delete_user"
  /\ \E h \in history : h.user = NULL
  /\ nextTicket > 2
  /\ Cardinality(tickets) = 1
  /\ Cardinality(history) < nextHistory - 1

====
